---------------------------- MODULE Spec2Model ----------------------------
(***************************************************************************)
(* Model of the dialogue-context manager of src/bot1-prelast.py: the       *)
(* per-chat window (history), the running summary, the request sent to the *)
(* persona model and the per-chat JSON log.                                *)
(*                                                                         *)
(* Texts are sequences of one-character strings, so that str.strip(),      *)
(* str.splitlines() and asterisk_to_quote() are computed, not assumed.     *)
(* A turn is the dict {"role", "content"} of the source plus the field     *)
(* "obj", which stands for the identity of the Python dict object (two     *)
(* turns with equal role and content are still two objects).               *)
(* The "timestamp" field of a log entry (datetime.now()) is left out: no   *)
(* code of the handlers reads it.                                          *)
(***************************************************************************)
EXTENDS Integers, Sequences, FiniteSets, TLC

VARIABLES
    user_histories, \* dict chat_id -> {"system", "history", "summary"}
    chats,          \* the files chats/chat_<id>.json
    pc,             \* position of the handler being run ("idle": none)
    cur,            \* chat_id of the update being handled (0: none)
    summary,        \* local variable `summary` of chat()
    full_history,   \* local variable `full_history` of chat(): the request
    reply,          \* what the handler last sent to the user
    stub,           \* which summarizer is installed: the real one or a test stub
    evicted,        \* history variable: per chat, the turns popped from the window
    summarized,     \* history variable: per chat, the calls made to the summarizer
    nobj,           \* per chat, how many turn objects were created
    epoch,          \* history variable: per chat, nobj at the last start or reset
    appended,       \* history variable: per chat, the turns appended to the window
                    \* since the last start or reset
    wfail,          \* history variable: the chats one of whose log writes failed
    io,             \* history variable: the file and remote calls of the latest update
    update,         \* the latest update dispatched: its chat id and text
    nevents,        \* how many updates were dispatched
    nfail           \* how many failures the environment injected

vars == <<user_histories, chats, pc, cur, summary, full_history, reply, stub,
          evicted, summarized, nobj, epoch, appended, wfail, io, update, nevents,
          nfail>>

-----------------------------------------------------------------------------
(* Bounds of the model *)

\* size of the uncompressed window (the source sets 6; the model runs the
\* handlers with a smaller window so that overflow is reached)
MAX_WINDOW == 2

\* updates dispatched in one run
MaxEvents == 4

\* failures (remote call, log write) injected in one run
MaxFailures == 1

ChatIds == {1, 2}

NoText == <<>>

-----------------------------------------------------------------------------
(* Texts *)

\* the persona prompt (one literal, the same in consent and clear_history)
SYSTEM_PROMPT == <<"P">>

\* the three button captions chat() dispatches on
START_COMMAND == <<"/", "s">>
CLEAR_COMMAND == <<"/", "c">>
CONSENT_BUTTON == <<"Y">>
CLEAR_BUTTON == <<"C">>
FEEDBACK_BUTTON == <<"F">>

\* the content logged by clear_history
CLEARED_NOTE == <<"c","l","r">>

\* the content logged by get_feedback for the request
FEEDBACK_NOTE == <<"f","b">>

\* the label put before the summary in the request
SUMMARY_LABEL == <<"S","u","m",":"," ">>

\* ordinary texts a user may type
UserTexts == { <<"u">> }

\* what a user may send to the text handler
InputTexts == UserTexts \cup {CONSENT_BUTTON, CLEAR_BUTTON, FEEDBACK_BUTTON}

\* completions the persona model may return: one text, which
\* asterisk_to_quote changes
ReplyTexts == { <<"*","b","*">> }

\* completions the summarizing model may return
SummaryTexts == { <<" ","S","\n">>, <<" ">> }

RECURSIVE lstrip_set(_, _)
lstrip_set(s, chars) ==
    IF s # <<>> /\ Head(s) \in chars THEN lstrip_set(Tail(s), chars) ELSE s

RECURSIVE rstrip_set(_, _)
rstrip_set(s, chars) ==
    IF s # <<>> /\ s[Len(s)] \in chars
    THEN rstrip_set(SubSeq(s, 1, Len(s) - 1), chars)
    ELSE s

Whitespace == {" ", "\n", "\t"}

\* str.strip()
strip(s) == rstrip_set(lstrip_set(s, Whitespace), Whitespace)

\* str.strip('*')
strip_star(s) == rstrip_set(lstrip_set(s, {"*"}), {"*"})

\* str.splitlines(): lines without their line ends; a final line end opens
\* no further line
RECURSIVE splitlines_from(_, _)
splitlines_from(s, line) ==
    IF s = <<>> THEN (IF line = <<>> THEN <<>> ELSE <<line>>)
    ELSE IF Head(s) = "\n" THEN <<line>> \o splitlines_from(Tail(s), <<>>)
    ELSE splitlines_from(Tail(s), Append(line, Head(s)))

splitlines(s) == splitlines_from(s, <<>>)

\* '\n'.join(lines)
RECURSIVE join_lines(_)
join_lines(lines) ==
    IF lines = <<>> THEN <<>>
    ELSE IF Len(lines) = 1 THEN lines[1]
    ELSE lines[1] \o <<"\n">> \o join_lines(Tail(lines))

quote_line(ln) ==
    LET stripped == strip(ln) IN
    IF stripped # <<>> /\ Head(stripped) = "*" /\ stripped[Len(stripped)] = "*"
       /\ Len(stripped) > 1
    THEN <<">", " ">> \o strip(strip_star(stripped))
    ELSE ln

asterisk_to_quote(text) ==
    LET lines == splitlines(text) IN
    join_lines([i \in 1..Len(lines) |-> quote_line(lines[i])])

-----------------------------------------------------------------------------
(* Conversation state and the log files *)

\* d[k] = v on a Python dict
\* d.setdefault(k, v): an existing entry is kept
dict_setdefault(d, k, v) ==
    [x \in (DOMAIN d) \cup {k} |-> IF x \in DOMAIN d THEN d[x] ELSE v]

\* d = {k: v}: the whole dict is replaced
dict_replace(d, k, v) == [x \in {k} |-> v]

dict_set(d, k, v) ==
    [x \in (DOMAIN d) \cup {k} |-> IF x = k THEN v ELSE d[x]]

\* the dict literal assigned by consent and by clear_history
FreshState == [system |-> SYSTEM_PROMPT, history |-> <<>>, summary |-> NoText]

Turn(role, content, obj) == [role |-> role, content |-> content, obj |-> obj]

NoFile == [torn |-> FALSE, messages |-> <<>>]

\* how one call of save_message_to_json may end: the entry is written; an
\* exception before the file is reopened for writing; an exception after
\* open(filename, "w") truncated it, which leaves no readable JSON behind
WriteOutcomes == {"ok", "error", "torn"}

WriteCost(w) == IF w = "ok" THEN 0 ELSE 1

\* data["messages"].append(message_data) run twice
save_message_to_json_twice(file, role, content, w) ==
    IF file.torn THEN file
    ELSE IF w = "ok"
         THEN [file EXCEPT !.messages =
                 Append(Append(@, [role |-> role, content |-> content]),
                        [role |-> role, content |-> content])]
    ELSE IF w = "error" THEN file
    ELSE [torn |-> TRUE, messages |-> <<>>]

\* data = {"chat_id": ..., "messages": [message_data]}: the file is written
\* with the new entry only
save_message_to_json_overwrite(file, role, content, w) ==
    IF file.torn THEN file
    ELSE IF w = "ok"
         THEN [file EXCEPT !.messages = <<[role |-> role, content |-> content]>>]
    ELSE IF w = "error" THEN file
    ELSE [torn |-> TRUE, messages |-> <<>>]

save_message_to_json(file, role, content, w) ==
    IF file.torn THEN file          \* json.load raises, the except swallows it
    ELSE IF w = "ok"
         THEN [file EXCEPT !.messages = Append(@, [role |-> role, content |-> content])]
    ELSE IF w = "error" THEN file
    ELSE [torn |-> TRUE, messages |-> <<>>]

\* what a call of save_message_to_json comes to: on a file that holds no
\* readable JSON every call fails at json.load
WriteResult(file, w) == IF file.torn THEN "error" ELSE w

\* load_chat_history reading the buffer of the live state instead of the file
load_chat_history_live(chat_id) ==
    IF chat_id \in DOMAIN user_histories
    THEN [i \in 1..Len(user_histories[chat_id].history) |->
            [role |-> user_histories[chat_id].history[i].role,
             content |-> user_histories[chat_id].history[i].content]]
    ELSE <<>>

\* load_chat_history on a readable file: data["messages"]
load_chat_history(chat_id) == chats[chat_id].messages

\* lines 294-297: the log as get_feedback puts it into its prompt
formatted_history(messages) ==
    [i \in 1..Len(messages) |->
        [speaker |-> IF messages[i].role = "user" THEN "psychologist" ELSE "client",
         content |-> messages[i].content]]

-----------------------------------------------------------------------------
(* Remote completions *)

Raise == [kind |-> "raise", content |-> NoText]
NoContent == [kind |-> "none", content |-> NoText]
Text(t) == [kind |-> "text", content |-> t]

CallCost(r) == IF r.kind = "text" THEN 0 ELSE 1

\* outcomes of the call made by update_summary: the model may also hand the
\* existing summary back, as its prompt asks
SummaryOutcomes(existing_summary) ==
    {Raise, NoContent} \cup {Text(t) : t \in SummaryTexts \cup {existing_summary}}

ReplyOutcomes == {Raise, NoContent} \cup {Text(t) : t \in ReplyTexts}

\* update_summary whose except branch returns "" instead of existing_summary
update_summary_reset_on_error(existing_summary, msg, r) ==
    IF r.kind = "text" THEN strip(r.content) ELSE NoText

\* update_summary whose except branch puts the message into the summary itself
update_summary_folds_on_error(existing_summary, msg, r) ==
    IF r.kind = "text" THEN strip(r.content) ELSE existing_summary \o msg.content

update_summary(existing_summary, msg, r) ==
    IF r.kind = "text" THEN strip(r.content)
    ELSE existing_summary          \* raise, or None.strip(): the except returns it

\* the summarizer chat() calls: update_summary, or the stub a test puts in
\* its place
Summarizer(existing_summary, msg, r) ==
    IF stub = "noop" THEN existing_summary
    ELSE IF stub = "fixed" THEN <<"S">>
    ELSE update_summary(existing_summary, msg, r)

-----------------------------------------------------------------------------
(* The window and the request *)

\* the test off by one: the window may hold MAX_WINDOW + 1 turns
window_overflows_off_by_one(history) == Len(history) > MAX_WINDOW + 1

window_overflows(history) == Len(history) > MAX_WINDOW

\* oldest read at index 0 after the pop instead of being the popped element
pop0_value_after_pop(history) == history[2]

\* history.pop() instead of history.pop(0)
pop0_rest_last(history) == SubSeq(history, 1, Len(history) - 1)

\* a pop that drops two turns
pop0_rest_two(history) == SubSeq(history, 3, Len(history))

\* history.pop(0): the element returned, and the list left
pop0_value(history) == history[1]
pop0_rest(history) == SubSeq(history, 2, Len(history))

\* history_data["summary"] += summary
store_summary_accumulate(history_data, new_summary) ==
    [history_data EXCEPT !.summary = @ \o new_summary]

\* history_data["summary"] = summary
store_summary(history_data, new_summary) ==
    [history_data EXCEPT !.summary = new_summary]

\* the request built without the `if summary:` test
build_request_always_summary(system_message, summ, history) ==
    <<[role |-> "system", content |-> system_message, obj |-> 0],
      [role |-> "system", content |-> SUMMARY_LABEL \o summ, obj |-> 0]>>
    \o history

\* the request built with the summary entry after the window
build_request_summary_last(system_message, summ, history) ==
    <<[role |-> "system", content |-> system_message, obj |-> 0]>>
    \o history
    \o (IF summ # NoText
        THEN <<[role |-> "system", content |-> SUMMARY_LABEL \o summ, obj |-> 0]>>
        ELSE <<>>)

\* the request of chat(): persona, summary entry if any, the window
build_request(system_message, summ, history) ==
    <<[role |-> "system", content |-> system_message, obj |-> 0]>>
    \o (IF summ # NoText
        THEN <<[role |-> "system", content |-> SUMMARY_LABEL \o summ, obj |-> 0]>>
        ELSE <<>>)
    \o history

\* the assistant append followed by a second eviction check
append_assistant_with_eviction(history, turn) ==
    IF Len(history) + 1 > MAX_WINDOW THEN Tail(Append(history, turn))
    ELSE Append(history, turn)

\* history.append({"role": "assistant", ...})
append_assistant(history, turn) == Append(history, turn)

-----------------------------------------------------------------------------
(* Replies to the user *)

Say(kind, text) == [kind |-> kind, text |-> text]

-----------------------------------------------------------------------------
(* The record of calls (history variable io) *)

\* io holds, in order, the calls made so far by the handler of the latest
\* update: file and remote calls
\* a call of save_message_to_json
Saved(file, role, content, w, obj) ==
    [op |-> "save", role |-> role, content |-> content,
     outcome |-> WriteResult(file, w), input |-> <<>>, obj |-> obj,
     at |-> Len(file.messages)]      \* entries in the file when it was called

\* a call of client.chat.completions.create (op: "summary", "persona",
\* "feedback") with the messages or log it was given
Called(op, r, input) ==
    [op |-> op, role |-> "", content |-> r.content,
     outcome |-> IF r.kind = "text" THEN "text" ELSE "failed",
     input |-> input, obj |-> 0, at |-> 0]

\* a call of load_chat_history
Loaded(outcome) ==
    [op |-> "load", role |-> "", content |-> NoText,
     outcome |-> outcome, input |-> <<>>, obj |-> 0, at |-> 0]

-----------------------------------------------------------------------------
(* Initial state *)

InitCommon ==
    /\ user_histories = [x \in {} |-> FreshState]
    /\ chats = [c \in ChatIds |-> NoFile]
    /\ pc = "idle"
    /\ cur = 0
    /\ summary = NoText
    /\ full_history = <<>>
    /\ reply = Say("none", NoText)
    /\ evicted = [c \in ChatIds |-> <<>>]
    /\ summarized = [c \in ChatIds |-> <<>>]
    /\ nobj = [c \in ChatIds |-> 0]
    /\ epoch = [c \in ChatIds |-> 0]
    /\ appended = [c \in ChatIds |-> <<>>]
    /\ wfail = {}
    /\ io = <<>>
    /\ update = [chat_id |-> 0, text |-> NoText]
    /\ nevents = 0
    /\ nfail = 0

Init == InitCommon /\ stub = "none"

\* a test run: chat 1 has started its session, a stub stands for update_summary
InitStub ==
    /\ user_histories = dict_set([x \in {} |-> FreshState], 1, FreshState)
    /\ chats = [c \in ChatIds |->
                  IF c = 1 THEN save_message_to_json(NoFile, "system", SYSTEM_PROMPT, "ok")
                  ELSE NoFile]
    /\ pc = "idle"
    /\ cur = 0
    /\ summary = NoText
    /\ full_history = <<>>
    /\ reply = Say("greeting", NoText)
    /\ evicted = [c \in ChatIds |-> <<>>]
    /\ summarized = [c \in ChatIds |-> <<>>]
    /\ nobj = [c \in ChatIds |-> 0]
    /\ epoch = [c \in ChatIds |-> 0]
    /\ appended = [c \in ChatIds |-> <<>>]
    /\ wfail = {}
    /\ io = <<Saved(NoFile, "system", SYSTEM_PROMPT, "ok", 0)>>
    /\ update = [chat_id |-> 1, text |-> CONSENT_BUTTON]
    /\ nevents = 0
    /\ nfail = MaxFailures     \* the test injects no failure
    /\ stub \in {"noop", "fixed"}

-----------------------------------------------------------------------------
(* Handlers *)

\* updates handled concurrently (concurrent_updates=True)
Dispatch_concurrent ==
    /\ nevents < MaxEvents
    /\ nevents' = nevents + 1

\* an update is taken only when no handler is running: the Application is
\* built with the default concurrent_updates=False
Dispatch ==
    /\ pc = "idle"
    /\ nevents < MaxEvents
    /\ nevents' = nevents + 1

Ghosts == <<evicted, summarized, nobj, epoch, appended, wfail>>

\* wfail after a call of save_message_to_json for chat c on this file
Noted(fails, c, file, w) == IF WriteResult(file, w) = "ok" THEN fails ELSE fails \cup {c}

Locals == <<pc, cur, summary, full_history>>

\* /start: only the description is sent
start(c) ==
    /\ Dispatch
    /\ reply' = Say("description", NoText)
    /\ update' = [chat_id |-> c, text |-> START_COMMAND]
    /\ io' = <<>>
    /\ UNCHANGED <<user_histories, chats, Locals, stub, Ghosts, nfail>>

consent(c, w) ==
    /\ user_histories' = dict_set(user_histories, c, FreshState)
    /\ chats' = [chats EXCEPT ![c] = save_message_to_json(@, "system", SYSTEM_PROMPT, w)]
    /\ reply' = Say("greeting", NoText)
    /\ epoch' = [epoch EXCEPT ![c] = nobj[c]]
    /\ io' = <<Saved(chats[c], "system", SYSTEM_PROMPT, w, 0)>>
    /\ nfail' = nfail + WriteCost(w)
    /\ appended' = [appended EXCEPT ![c] = <<>>]
    /\ wfail' = Noted(wfail, c, chats[c], w)
    /\ UNCHANGED <<Locals, stub, evicted, summarized, nobj>>

clear_history(c, w) ==
    /\ user_histories' = dict_set(user_histories, c, FreshState)
    /\ chats' = [chats EXCEPT ![c] = save_message_to_json(@, "system", CLEARED_NOTE, w)]
    /\ reply' = Say("cleared", NoText)
    /\ epoch' = [epoch EXCEPT ![c] = nobj[c]]
    /\ io' = <<Saved(chats[c], "system", CLEARED_NOTE, w, 0)>>
    /\ nfail' = nfail + WriteCost(w)
    /\ appended' = [appended EXCEPT ![c] = <<>>]
    /\ wfail' = Noted(wfail, c, chats[c], w)
    /\ UNCHANGED <<Locals, stub, evicted, summarized, nobj>>

\* /clear
cmd_clear(c) ==
    /\ Dispatch
    /\ update' = [chat_id |-> c, text |-> CLEAR_COMMAND]
    /\ \E w \in WriteOutcomes :
         /\ nfail + WriteCost(w) <= MaxFailures
         /\ clear_history(c, w)

\* the report: it reads the log, asks the model, logs request and answer
get_feedback(c) ==
    \/ \* load_chat_history raises (open or json.load), outside the try
       /\ chats[c].torn \/ nfail + 1 <= MaxFailures
       /\ nfail' = IF chats[c].torn THEN nfail ELSE nfail + 1
       /\ reply' = Say("unhandled", NoText)
       /\ io' = <<Loaded("error")>>
       /\ UNCHANGED <<user_histories, chats, Locals, stub, Ghosts>>
    \/ /\ ~chats[c].torn
       /\ \E r \in ReplyOutcomes, w1, w2 \in WriteOutcomes :
            LET prompt == formatted_history(load_chat_history(c))
                asked == <<Loaded("ok"), Called("feedback", r, prompt)>>
            IN
            /\ nfail + CallCost(r) + WriteCost(w1) + WriteCost(w2) <= MaxFailures
            /\ IF r.kind # "text"
               THEN /\ w1 = "ok" /\ w2 = "ok"
                    /\ reply' = Say("feedback_error", NoText)
                    /\ nfail' = nfail + 1
                    /\ io' = asked
                    /\ UNCHANGED <<user_histories, chats, Locals, stub, Ghosts>>
               ELSE LET feedback == asterisk_to_quote(r.content)
                        f1 == save_message_to_json(chats[c], "user", FEEDBACK_NOTE, w1)
                        f2 == save_message_to_json(f1, "assistant", feedback, w2)
                    IN /\ chats' = [chats EXCEPT ![c] = f2]
                       /\ reply' = Say("feedback", feedback)
                       /\ nfail' = nfail + WriteCost(w1) + WriteCost(w2)
                       /\ io' = asked \o
                                   <<Saved(chats[c], "user", FEEDBACK_NOTE, w1, 0),
                                     Saved(f1, "assistant", feedback, w2, 0)>>
                       /\ wfail' = Noted(Noted(wfail, c, chats[c], w1), c, f1, w2)
                       /\ UNCHANGED <<user_histories, Locals, stub, evicted, summarized,
                                      nobj, epoch, appended>>

\* a first message that creates the state instead of asking for consent
guidance_creates_state(c) ==
    /\ reply' = Say("guidance", NoText)
    /\ io' = <<>>
    /\ user_histories' = dict_set(user_histories, c, FreshState)
    /\ UNCHANGED <<chats, Locals, stub, Ghosts, nfail>>

\* the guidance sent when the chat has no state
guidance(c) ==
    /\ reply' = Say("guidance", NoText)
    /\ io' = <<>>
    /\ UNCHANGED <<user_histories, chats, Locals, stub, Ghosts, nfail>>

\* a handler that gives up the turn when the log write fails
chat_append_user_or_abort(c, user_message, w) ==
    LET history_data == user_histories[c]
        turn == Turn("user", user_message, nobj[c] + 1)
    IN /\ chats' = [chats EXCEPT ![c] = save_message_to_json(@, "user", user_message, w)]
       /\ nfail' = nfail + WriteCost(w)
       /\ io' = <<Saved(chats[c], "user", user_message, w, nobj[c] + 1)>>
       /\ IF WriteResult(chats[c], w) = "ok"
          THEN /\ summary' = history_data.summary
               /\ user_histories' = [user_histories EXCEPT ![c].history = Append(@, turn)]
               /\ nobj' = [nobj EXCEPT ![c] = @ + 1]
               /\ appended' = [appended EXCEPT ![c] = Append(@, turn)]
               /\ cur' = c
               /\ pc' = "check_window"
               /\ UNCHANGED reply
          ELSE /\ reply' = Say("error", NoText)
               /\ UNCHANGED <<user_histories, nobj, appended, Locals>>
       /\ wfail' = Noted(wfail, c, chats[c], w)
       /\ UNCHANGED <<full_history, stub, evicted, summarized, epoch>>

\* lines 379-394: log the user message, bind the locals, append the user turn
chat_append_user(c, user_message, w) ==
    LET history_data == user_histories[c]
        turn == Turn("user", user_message, nobj[c] + 1)
    IN /\ chats' = [chats EXCEPT ![c] = save_message_to_json(@, "user", user_message, w)]
       /\ summary' = history_data.summary
       /\ user_histories' = [user_histories EXCEPT ![c].history = Append(@, turn)]
       /\ nobj' = [nobj EXCEPT ![c] = @ + 1]
       /\ appended' = [appended EXCEPT ![c] = Append(@, turn)]
       /\ wfail' = Noted(wfail, c, chats[c], w)
       /\ cur' = c
       /\ pc' = "check_window"
       /\ nfail' = nfail + WriteCost(w)
       /\ io' = <<Saved(chats[c], "user", user_message, w, nobj[c] + 1)>>
       /\ UNCHANGED <<full_history, reply, stub, evicted, summarized, epoch>>

\* the text handler, lines 353-394
chat(c, user_message) ==
    /\ Dispatch
    /\ update' = [chat_id |-> c, text |-> user_message]
    /\ IF user_message = CONSENT_BUTTON
       THEN \E w \in WriteOutcomes :
              nfail + WriteCost(w) <= MaxFailures /\ consent(c, w)
       ELSE IF user_message = CLEAR_BUTTON
       THEN \E w \in WriteOutcomes :
              nfail + WriteCost(w) <= MaxFailures /\ clear_history(c, w)
       ELSE IF user_message = FEEDBACK_BUTTON
       THEN get_feedback(c)
       ELSE IF c \notin DOMAIN user_histories
       THEN guidance(c)
       ELSE \E w \in WriteOutcomes :
              /\ nfail + WriteCost(w) <= MaxFailures
              /\ chat_append_user(c, user_message, w)

\* lines 396-400
chat_check_window ==
    /\ pc = "check_window"
    /\ LET history_data == user_histories[cur]
           history == history_data.history
       IN IF window_overflows(history)
          THEN \E r \in (IF stub = "none" THEN SummaryOutcomes(summary) ELSE {Raise}) :
                 LET oldest == pop0_value(history)
                     new_summary == Summarizer(summary, oldest, r)
                     cost == IF stub = "none" THEN CallCost(r) ELSE 0
                 IN /\ nfail + cost <= MaxFailures
                    /\ nfail' = nfail + cost
                    /\ summary' = new_summary
                    /\ user_histories' =
                         [user_histories EXCEPT ![cur] =
                            store_summary([history_data EXCEPT !.history = pop0_rest(history)],
                                          new_summary)]
                    /\ evicted' = [evicted EXCEPT ![cur] = Append(@, oldest)]
                    /\ summarized' = [summarized EXCEPT ![cur] =
                         Append(@, [before |-> summary, msg |-> oldest,
                                    completion |-> r, result |-> new_summary,
                                    window |-> user_histories'[cur].history,
                                    at |-> nobj[cur]])]
                    /\ io' = Append(io,
                                IF stub = "none" THEN Called("summary", r, <<oldest>>)
                                ELSE Called("summary", Text(new_summary), <<oldest>>))
          ELSE UNCHANGED <<user_histories, summary, evicted, summarized, io, nfail>>
    /\ pc' = "build_request"
    /\ UNCHANGED <<chats, cur, full_history, reply, stub, nobj, epoch, appended, wfail,
                   update, nevents>>

\* lines 402-406
chat_build_request ==
    /\ pc = "build_request"
    /\ full_history' = build_request(user_histories[cur].system, summary,
                                     user_histories[cur].history)
    /\ pc' = "call_model"
    /\ UNCHANGED <<user_histories, chats, cur, summary, reply, stub, Ghosts, io, update,
                   nevents, nfail>>

\* lines 409-431, the try body once the completion has returned a text
chat_completion_ok(r, w) ==
    LET assistant_reply == asterisk_to_quote(r.content)
        turn == Turn("assistant", assistant_reply, nobj[cur] + 1)
    IN /\ nfail + WriteCost(w) <= MaxFailures
       /\ nfail' = nfail + WriteCost(w)
       /\ user_histories' = [user_histories EXCEPT ![cur].history =
                                append_assistant(@, turn)]
       /\ nobj' = [nobj EXCEPT ![cur] = @ + 1]
       /\ appended' = [appended EXCEPT ![cur] = Append(@, turn)]
       /\ wfail' = Noted(wfail, cur, chats[cur], w)
       /\ chats' = [chats EXCEPT ![cur] =
                       save_message_to_json(@, "assistant", assistant_reply, w)]
       /\ reply' = Say("reply", assistant_reply)
       /\ io' = io \o
                   <<Called("persona", r, full_history),
                     Saved(chats[cur], "assistant", assistant_reply, w, nobj[cur] + 1)>>

\* an except branch that puts the error text into the window and the log
chat_completion_failed_recorded(r) ==
    LET turn == Turn("assistant", NoText, nobj[cur] + 1)
    IN /\ nfail + 1 <= MaxFailures
       /\ nfail' = nfail + 1
       /\ user_histories' = [user_histories EXCEPT ![cur].history = Append(@, turn)]
       /\ nobj' = [nobj EXCEPT ![cur] = @ + 1]
       /\ appended' = [appended EXCEPT ![cur] = Append(@, turn)]
       /\ chats' = [chats EXCEPT ![cur] = save_message_to_json(@, "assistant", NoText, "ok")]
       /\ UNCHANGED wfail
       /\ reply' = Say("error", NoText)
       /\ io' = Append(io, Called("persona", r, full_history))

\* an except branch that also forgets the summary
chat_completion_failed_clears_summary(r) ==
    /\ nfail + 1 <= MaxFailures
    /\ nfail' = nfail + 1
    /\ reply' = Say("error", NoText)
    /\ io' = Append(io, Called("persona", r, full_history))
    /\ user_histories' = [user_histories EXCEPT ![cur].summary = NoText]
    /\ UNCHANGED <<chats, nobj, appended, wfail>>

\* lines 433-438, the except branch: the call raised, or its content is None
\* and asterisk_to_quote raised
chat_completion_failed(r) ==
    /\ nfail + 1 <= MaxFailures
    /\ nfail' = nfail + 1
    /\ reply' = Say("error", NoText)
    /\ io' = Append(io, Called("persona", r, full_history))
    /\ UNCHANGED <<user_histories, chats, nobj, appended, wfail>>

\* lines 408-438
chat_call_model ==
    /\ pc = "call_model"
    /\ \E r \in ReplyOutcomes :
         IF r.kind = "text"
         THEN \E w \in WriteOutcomes : chat_completion_ok(r, w)
         ELSE chat_completion_failed(r)
    /\ pc' = "idle"
    /\ cur' = 0
    /\ summary' = NoText
    /\ full_history' = <<>>
    /\ UNCHANGED <<stub, evicted, summarized, epoch, update, nevents>>

Next ==
    \/ \E c \in ChatIds : start(c)
    \/ \E c \in ChatIds : cmd_clear(c)
    \/ \E c \in ChatIds, t \in InputTexts : chat(c, t)
    \/ chat_check_window
    \/ chat_build_request
    \/ chat_call_model

Spec == Init /\ [][Next]_vars

SpecStub == InitStub /\ [][Next]_vars


-----------------------------------------------------------------------------
(* Vocabulary of the properties *)

Started == DOMAIN user_histories

Buffer(c) == user_histories[c].history

Objs(turns) == [i \in 1..Len(turns) |-> turns[i].obj]

ObjSet(turns) == {turns[i].obj : i \in 1..Len(turns)}

Increasing(ns) == \A i, j \in 1..Len(ns) : i < j => ns[i] < ns[j]

\* the turns popped, and the summarizer calls made, since the last session
\* start or reset of chat c
EvictedSince(c) == SelectSeq(evicted[c], LAMBDA t : t.obj > epoch[c])
SummarizedSince(c) == SelectSeq(summarized[c], LAMBDA k : k.msg.obj > epoch[c])

\* the handler of chat c has just run its eviction step, and it evicted
EvictedThisTurn(c) ==
    /\ cur = c
    /\ pc \in {"build_request", "call_model"}
    /\ summarized[c] # <<>>
    /\ summarized[c][Len(summarized[c])].at = nobj[c]

LastCall(c) == summarized[c][Len(summarized[c])]

-----------------------------------------------------------------------------
(* C1: at the moment the request is assembled, right after the eviction    *)
(* check of a user turn, the window holds at most MAX_WINDOW turns.        *)
C1_WindowBoundedAtRequest ==
    pc = "build_request" => Len(Buffer(cur)) <= MAX_WINDOW

-----------------------------------------------------------------------------
(* C2: eviction is FIFO. The turn popped is the first and the oldest turn  *)
(* of the window, the turns left keep their order, and the turns evicted   *)
(* over a run come out in the order in which they were appended.           *)
C2_EvictionStep ==
    \A c \in ChatIds :
        evicted'[c] # evicted[c] =>
            /\ c \in Started /\ c \in DOMAIN user_histories'
            /\ Buffer(c) # <<>>
            /\ evicted'[c] = Append(evicted[c], Buffer(c)[1])
            /\ \A i \in 1..Len(Buffer(c)) : Buffer(c)[1].obj <= Buffer(c)[i].obj
            /\ user_histories'[c].history = Tail(Buffer(c))

C2_EvictionOrder ==
    \A c \in ChatIds :
        /\ Increasing(Objs(evicted[c]))
        /\ c \in Started =>
             /\ Increasing(Objs(Buffer(c)))
             /\ \A e \in ObjSet(evicted[c]), b \in ObjSet(Buffer(c)) : e < b

\* C2: every eviction pops the oldest turn, and evicted turns leave in append order
C2_EvictionIsFifo == []C2_EvictionOrder /\ [][C2_EvictionStep]_vars

C2_Witness ==
    /\ Len(EvictedSince(1)) = 2
    /\ 1 \in Started
    /\ Len(Buffer(1)) >= 2

-----------------------------------------------------------------------------
(* C3: the summarizer is called with one turn per call, the turn the same  *)
(* step has just popped from the window; no turn is passed to it twice,    *)
(* and no turn passed to it is in the window, then or later.               *)
C3_SummarizedOnlyEvicted ==
    \A c \in ChatIds :
        /\ Len(summarized[c]) = Len(evicted[c])
        /\ \A i \in 1..Len(summarized[c]) :
             /\ summarized[c][i].msg = evicted[c][i]
             /\ summarized[c][i].msg.obj \notin ObjSet(summarized[c][i].window)
             /\ c \in Started => summarized[c][i].msg.obj \notin ObjSet(Buffer(c))
        /\ \A i, j \in 1..Len(summarized[c]) :
             i # j => summarized[c][i].msg.obj # summarized[c][j].msg.obj

C3_Witness ==
    /\ Len(summarized[1]) = 2
    /\ 1 \in Started
    /\ Buffer(1) # <<>>
    /\ epoch[1] = 0


-----------------------------------------------------------------------------
(* C4: an eviction replaces the stored summary by the value the summarizer *)
(* returned. Under the stub that returns its input the summary never       *)
(* changes in an eviction; under the stub that returns "S" the summary is  *)
(* "S" after every eviction, the third included.                           *)
C4_Replaced ==
    \A c \in Started :
        SummarizedSince(c) # <<>> =>
            /\ user_histories[c].summary = LastCall(c).result
            /\ stub = "fixed" => user_histories[c].summary = <<"S">>

C4_NoopStep ==
    \A c \in ChatIds :
        (stub = "noop" /\ evicted'[c] # evicted[c]) =>
            user_histories'[c].summary = user_histories[c].summary

\* C4: the stored summary is the summarizer's last result, never an accumulation
C4_SummaryIsReplaced == []C4_Replaced /\ [][C4_NoopStep]_vars

C4_Witness ==
    /\ stub = "fixed"
    /\ 1 \in Started
    /\ Len(EvictedSince(1)) = 3
    /\ user_histories[1].summary = <<"S">>

-----------------------------------------------------------------------------
(* C5: when the remote call of the summarizer raises, or its response has  *)
(* no content, update_summary returns the previous summary, the handler    *)
(* goes on, and the stored summary is what it was before the turn.         *)
C5_FailedCall(c) ==
    /\ pc = "check_window" /\ cur = c
    /\ Len(summarized'[c]) = Len(summarized[c]) + 1
    /\ summarized'[c][Len(summarized'[c])].completion.kind # "text"

C5_Step ==
    \A c \in ChatIds :
        C5_FailedCall(c) =>
            /\ summarized'[c][Len(summarized'[c])].result = user_histories[c].summary
            /\ user_histories'[c].summary = user_histories[c].summary
            /\ summary' = user_histories[c].summary
            /\ pc' = "build_request"

\* the rest of that turn (request, completion, assistant append) keeps it too
C5_RestOfTurn ==
    \A c \in ChatIds :
        (EvictedThisTurn(c) /\ LastCall(c).completion.kind # "text") =>
            /\ user_histories[c].summary = LastCall(c).before
            /\ user_histories'[c].summary = LastCall(c).before

\* C5: a failed summarizer call leaves the summary as it was and is not raised
C5_FailureKeepsSummary == [][C5_Step /\ C5_RestOfTurn]_vars

C5_Witness ==
    /\ 1 \in Started
    /\ pc = "build_request" /\ cur = 1
    /\ EvictedThisTurn(1)
    /\ LastCall(1).completion.kind = "raise"
    /\ LastCall(1).before = <<"S">>
    /\ user_histories[1].summary = <<"S">>

-----------------------------------------------------------------------------
(* C6: a completion of the summarizer that is empty or only whitespace is  *)
(* treated as a failed call: update_summary returns the previous summary,  *)
(* so no eviction replaces a non-empty summary by the empty one.           *)
C6_EmptyCompletionKeepsSummary ==
    \A c \in ChatIds :
        \A i \in 1..Len(summarized[c]) :
            LET k == summarized[c][i] IN
            (k.completion.kind = "text" /\ strip(k.completion.content) = NoText)
                => (k.result = k.before /\ (k.before # NoText => k.result # NoText))

-----------------------------------------------------------------------------
(* C7: a request to the persona model has no summary entry when the stored *)
(* summary is empty, and exactly one, right after the persona entry, when  *)
(* it is not.                                                              *)
IsSummaryEntry(e) ==
    /\ e.role = "system"
    /\ Len(e.content) >= Len(SUMMARY_LABEL)
    /\ SubSeq(e.content, 1, Len(SUMMARY_LABEL)) = SUMMARY_LABEL

SummaryEntries(request) == {i \in 1..Len(request) : IsSummaryEntry(request[i])}

\* C7: no summary entry for an empty summary, else exactly one, at position 2
C7_SummaryEntry ==
    pc = "call_model" =>
        /\ full_history # <<>>
        /\ full_history[1].role = "system"
        /\ full_history[1].content = user_histories[cur].system
        /\ user_histories[cur].summary = NoText => SummaryEntries(full_history) = {}
        /\ user_histories[cur].summary # NoText =>
             /\ SummaryEntries(full_history) = {2}
             /\ full_history[2].content = SUMMARY_LABEL \o user_histories[cur].summary

C7_Witness ==
    /\ pc = "call_model"
    /\ user_histories[cur].summary # NoText
    /\ SummaryEntries(full_history) = {2}

-----------------------------------------------------------------------------
(* C8: a request is the persona entry, then the summary entry if any, then *)
(* the whole window in order; it is built after the eviction step, so it   *)
(* ends with the user turn just submitted, holds no evicted turn, and      *)
(* carries the summary as updated in this turn.                            *)
C8_RequestOrder ==
    pc = "call_model" =>
        LET st == user_histories[cur]
            n == IF st.summary = NoText THEN 1 ELSE 2
        IN /\ Len(full_history) = n + Len(st.history)
           /\ full_history[1].content = st.system
           /\ n = 2 => full_history[2].content = SUMMARY_LABEL \o st.summary
           /\ SubSeq(full_history, n + 1, Len(full_history)) = st.history
           /\ Increasing(Objs(st.history))
           /\ full_history[Len(full_history)].role = "user"
           /\ full_history[Len(full_history)].obj = nobj[cur]
           /\ ObjSet(full_history) \cap ObjSet(evicted[cur]) = {}
           /\ EvictedThisTurn(cur) =>
                /\ st.summary = LastCall(cur).result
                /\ summary = LastCall(cur).result
                /\ LastCall(cur).msg.obj \notin ObjSet(full_history)

C8_Witness ==
    /\ pc = "call_model"
    /\ EvictedThisTurn(cur)
    /\ LastCall(cur).before = NoText
    /\ LastCall(cur).result = <<"S">>
    /\ Len(full_history) = 4

-----------------------------------------------------------------------------
(* C9: a user turn evicts at most once, in the step right after the user   *)
(* append; appending the assistant reply pops nothing and calls no         *)
(* summarizer, also when it makes the window longer than MAX_WINDOW.       *)
C9_Step ==
    /\ \A c \in ChatIds :
         /\ Len(evicted'[c]) <= Len(evicted[c]) + 1
         /\ Len(summarized'[c]) <= Len(summarized[c]) + 1
         /\ (evicted'[c] # evicted[c] \/ summarized'[c] # summarized[c]) =>
               (pc = "check_window" /\ cur = c)
    /\ pc = "call_model" =>
         /\ evicted' = evicted /\ summarized' = summarized
         /\ \/ user_histories'[cur].history = user_histories[cur].history
            \/ /\ Len(user_histories'[cur].history) = Len(user_histories[cur].history) + 1
               /\ SubSeq(user_histories'[cur].history, 1, Len(user_histories[cur].history))
                    = user_histories[cur].history
               /\ user_histories'[cur].history[Len(user_histories'[cur].history)].role
                    = "assistant"

C9_OncePerTurn ==
    \A c \in ChatIds :
        \A i, j \in 1..Len(summarized[c]) :
            i # j => summarized[c][i].at # summarized[c][j].at

\* C9: at most one eviction per user turn, none at the assistant append
C9_EvictionOnlyAfterUserAppend == []C9_OncePerTurn /\ [][C9_Step]_vars

C9_Witness ==
    /\ pc = "idle"
    /\ 1 \in Started
    /\ Len(Buffer(1)) > MAX_WINDOW
    /\ Buffer(1)[Len(Buffer(1))].role = "assistant"
    /\ Len(EvictedSince(1)) = 1

-----------------------------------------------------------------------------
(* C10: with MAX_WINDOW = 2, a fresh session and successful completions:   *)
(* the window is [U1, A1] after the first turn, [U1, A1, U2] once U2 is    *)
(* appended, [A1, U2] after the eviction of U1, with a summary made from   *)
(* U1 alone, and [A1, U2, A2] after A2 is appended, with no eviction.      *)
TurnsSince(c) == EvictedSince(c) \o Buffer(c)

\* every completion of the session so far was successful: the turns since
\* the start are user, assistant, user, ...
AllSuccessful(c) ==
    \A i \in 1..Len(TurnsSince(c)) :
        TurnsSince(c)[i].role = (IF i % 2 = 1 THEN "user" ELSE "assistant")

\* the objects of the session's turns, counted from its start
Rel(c, turns) == [i \in 1..Len(turns) |-> turns[i].obj - epoch[c]]

\* C10: the windows of the MAX_WINDOW = 2 scenario U1, A1, U2, A2
C10_Scenario ==
    MAX_WINDOW = 2 =>
        \A c \in Started :
            LET n == nobj[c] - epoch[c]
                handling == cur = c /\ pc # "idle"
            IN AllSuccessful(c) =>
                /\ (n = 2 /\ ~handling) =>
                      /\ Rel(c, Buffer(c)) = <<1, 2>>
                      /\ SummarizedSince(c) = <<>>
                /\ (n = 3 /\ cur = c /\ pc = "check_window") =>
                      /\ Rel(c, Buffer(c)) = <<1, 2, 3>>
                      /\ SummarizedSince(c) = <<>>
                /\ (n = 3 /\ cur = c /\ pc \in {"build_request", "call_model"}) =>
                      /\ Rel(c, Buffer(c)) = <<2, 3>>
                      /\ Rel(c, EvictedSince(c)) = <<1>>
                      /\ Len(SummarizedSince(c)) = 1
                      /\ LastCall(c).msg = EvictedSince(c)[1]
                      /\ LastCall(c).before = NoText
                      /\ user_histories[c].summary = LastCall(c).result
                /\ (n = 4 /\ ~handling) =>
                      /\ Rel(c, Buffer(c)) = <<2, 3, 4>>
                      /\ Rel(c, EvictedSince(c)) = <<1>>
                      /\ Len(SummarizedSince(c)) = 1

C10_Witness ==
    /\ MAX_WINDOW = 2
    /\ 1 \in Started
    /\ pc = "idle"
    /\ AllSuccessful(1)
    /\ Rel(1, Buffer(1)) = <<2, 3, 4>>
    /\ Buffer(1)[3].role = "assistant"
    /\ Len(SummarizedSince(1)) = 1

-----------------------------------------------------------------------------
(* Vocabulary of the calls of one update *)

Ops(op) == SelectSeq(io, LAMBDA k : k.op = op)

LastOf(seq) == seq[Len(seq)]

IsPrefix(s, t) == Len(s) <= Len(t) /\ SubSeq(t, 1, Len(s)) = s

Entry(role, content) == [role |-> role, content |-> content]

\* an update is being dispatched in this step, for chat c with text t
Dispatched(c, t) ==
    /\ pc = "idle"
    /\ nevents' = nevents + 1
    /\ update' = [chat_id |-> c, text |-> t]

ResetTexts == {CONSENT_BUTTON, CLEAR_BUTTON, CLEAR_COMMAND}

\* the latest update is a user turn the handler accepted (it logged it)
AcceptedTurn == update.text \in UserTexts /\ io # <<>>

-----------------------------------------------------------------------------
(* C11: a failed persona completion is caught: the fixed error message is  *)
(* sent, the call is not repeated, the window and the log stay as they     *)
(* were; a user turn makes at most one persona call and at most one        *)
(* summarizer call.                                                        *)
C11_CallsPerTurn ==
    AcceptedTurn =>
        /\ Len(Ops("persona")) <= 1
        /\ Len(Ops("summary")) <= 1
        /\ pc = "idle" => Len(Ops("persona")) = 1

C11_FailedStep ==
    (pc = "call_model" /\ io' # io /\ LastOf(io').op = "persona"
        /\ LastOf(io').outcome = "failed") =>
        /\ pc' = "idle"
        /\ reply' = Say("error", NoText)
        /\ user_histories' = user_histories
        /\ chats' = chats
        /\ Len(io') = Len(io) + 1

\* C11: a failed completion ends the turn with the error message and no assistant turn
C11_FailedCompletion == []C11_CallsPerTurn /\ [][C11_FailedStep]_vars

C11_Witness ==
    /\ pc = "idle"
    /\ AcceptedTurn
    /\ reply = Say("error", NoText)
    /\ Len(Ops("summary")) = 1
    /\ LastOf(io).op = "persona"
    /\ LastOf(io).outcome = "failed"

-----------------------------------------------------------------------------
(* C12: a user text for a chat without state gets the guidance message     *)
(* only: no state, no log entry, no call; a chat gets its state only by a  *)
(* consent or a reset for it.                                              *)
C12_Step ==
    \A c \in ChatIds :
        /\ \A t \in UserTexts :
             (Dispatched(c, t) /\ c \notin Started) =>
                /\ reply' = Say("guidance", NoText)
                /\ user_histories' = user_histories
                /\ chats' = chats
                /\ io' = <<>>
                /\ pc' = "idle"
        /\ (c \notin Started /\ c \in DOMAIN user_histories') =>
                /\ update'.chat_id = c
                /\ update'.text \in ResetTexts
                /\ nevents' = nevents + 1

\* C12: no state is created by a first message
C12_NoImplicitState == [][C12_Step]_vars

C12_Witness ==
    /\ pc = "idle"
    /\ reply.kind = "guidance"
    /\ update.chat_id = 2
    /\ update.text \in UserTexts
    /\ 2 \notin Started
    /\ 1 \in Started
    /\ chats[2] = NoFile

-----------------------------------------------------------------------------
(* C13: after a consent or a reset the state of the chat is the persona,   *)
(* an empty window and an empty summary, whatever it was; the requests     *)
(* after it hold no turn from before it, and the first one is the persona  *)
(* and the new user turn.                                                  *)
C13_FreshAfterStartOrReset ==
    /\ \A c \in ChatIds :
         (pc = "idle" /\ update.chat_id = c /\ update.text \in ResetTexts) =>
            /\ c \in Started
            /\ user_histories[c] =
                 [system |-> SYSTEM_PROMPT, history |-> <<>>, summary |-> NoText]
    /\ pc = "call_model" =>
         /\ \A i \in 1..Len(full_history) :
              full_history[i].obj = 0 \/ full_history[i].obj > epoch[cur]
         /\ SummaryEntries(full_history) # {} => SummarizedSince(cur) # <<>>
         /\ nobj[cur] = epoch[cur] + 1 =>
              full_history = <<[role |-> "system", content |-> SYSTEM_PROMPT, obj |-> 0],
                               Turn("user", update.text, nobj[cur])>>

\* a reset of a chat whose window was full and whose summary was not empty
C13_Witness ==
    /\ pc = "idle"
    /\ update.chat_id = 1
    /\ update.text \in {CLEAR_BUTTON, CLEAR_COMMAND}
    /\ summarized[1] # <<>>
    /\ LastCall(1).result # NoText
    /\ LastCall(1).window # <<>>
    /\ epoch[1] = nobj[1]
    /\ Buffer(1) = <<>>

-----------------------------------------------------------------------------
(* C14: the log is append-only: its entries before a step are a prefix of  *)
(* its entries after the step.                                             *)
C14_Step == \A c \in ChatIds : IsPrefix(chats[c].messages, chats'[c].messages)

\* C14: no step removes or changes a log entry
C14_LogAppendOnly == [][C14_Step]_vars

-----------------------------------------------------------------------------
(* C15: a failed log write does not change the turn: the window, the       *)
(* summary, the request and the reply are those of the turn with           *)
(* successful writes.                                                      *)
C15_Step ==
    /\ \A c \in ChatIds, t \in UserTexts :
         (Dispatched(c, t) /\ c \in Started /\ io' # <<>> /\ io'[1].outcome # "ok") =>
            /\ pc' = "check_window"
            /\ cur' = c
            /\ user_histories' =
                 [user_histories EXCEPT ![c].history = Append(@, Turn("user", t, nobj[c] + 1))]
            /\ summary' = user_histories[c].summary
            /\ reply' = reply
    /\ (pc = "call_model" /\ io' # io /\ LastOf(io').op = "save"
            /\ LastOf(io').outcome # "ok") =>
            LET text == asterisk_to_quote(io'[Len(io') - 1].content)
            IN /\ io'[Len(io') - 1].op = "persona"
               /\ user_histories' =
                    [user_histories EXCEPT ![cur].history =
                        Append(@, Turn("assistant", text, nobj[cur] + 1))]
               /\ reply' = Say("reply", text)
               /\ pc' = "idle"

C15_Request ==
    (pc = "call_model" /\ io[1].outcome # "ok") =>
        /\ full_history = build_request(SYSTEM_PROMPT, user_histories[cur].summary, Buffer(cur))
        /\ LastOf(full_history) = Turn("user", update.text, nobj[cur])

\* C15: the turn goes on as if the write had succeeded
C15_WriteFailureSwallowed == []C15_Request /\ [][C15_Step]_vars

C15_Witness ==
    /\ pc = "idle"
    /\ AcceptedTurn
    /\ io[1].outcome # "ok"
    /\ reply.kind = "reply"
    /\ LastOf(Buffer(update.chat_id)).role = "assistant"

-----------------------------------------------------------------------------
(* C16: a report request leaves user_histories as it is, with or without   *)
(* state for the chat and whatever the call returns; the history it sends  *)
(* is the content of the log file.                                         *)
C16_Step ==
    \A c \in ChatIds :
        Dispatched(c, FEEDBACK_BUTTON) =>
            /\ user_histories' = user_histories
            /\ pc' = "idle"
            /\ \A i \in 1..Len(io') :
                 io'[i].op = "feedback" =>
                    io'[i].input = formatted_history(chats[c].messages)

\* C16: get_feedback reads the log and does not touch the live state
C16_ReportLeavesState == [][C16_Step]_vars

C16_Witness ==
    /\ pc = "idle"
    /\ update.text = FEEDBACK_BUTTON
    /\ update.chat_id \in Started
    /\ Buffer(update.chat_id) # <<>>
    /\ Len(io) >= 2
    /\ io[2].op = "feedback"
    /\ Len(io[2].input) > Len(Buffer(update.chat_id))

-----------------------------------------------------------------------------
(* C17: chats are independent. The view of a chat is all the program holds *)
(* for it; a step changes the view of the chat of the update only, and the *)
(* new view is one that the chat running alone can reach from its old view *)
(* (Alone takes nothing but the two views and the text of the update).     *)
View(c) ==
    [state  |-> IF c \in DOMAIN user_histories THEN <<user_histories[c]>> ELSE <<>>,
     log    |-> chats[c],
     nobj   |-> nobj[c],
     at     |-> IF cur = c THEN pc ELSE "idle",
     locals |-> IF cur = c /\ pc # "idle" THEN <<summary, full_history>> ELSE <<>>]

AloneReset(v, v2, note) ==
    /\ v2.state = <<[system |-> SYSTEM_PROMPT, history |-> <<>>, summary |-> NoText]>>
    /\ v2.nobj = v.nobj
    /\ v2.at = "idle"
    /\ v2.locals = <<>>
    /\ \E w \in WriteOutcomes : v2.log = save_message_to_json(v.log, "system", note, w)

\* the texts a completion may come to, once through asterisk_to_quote
QuotedReplyTexts == {asterisk_to_quote(t) : t \in ReplyTexts}

AloneReport(v, v2) ==
    /\ v2.state = v.state
    /\ v2.nobj = v.nobj
    /\ v2.at = "idle"
    /\ v2.locals = <<>>
    /\ \/ v2.log = v.log
       \/ \E q \in QuotedReplyTexts, w1 \in WriteOutcomes, w2 \in WriteOutcomes :
            v2.log = save_message_to_json(
                        save_message_to_json(v.log, "user", FEEDBACK_NOTE, w1),
                        "assistant", q, w2)

AloneUserTurn(v, v2, t) ==
    IF v.state = <<>> THEN v2 = v
    ELSE /\ v2.state = <<[v.state[1] EXCEPT !.history =
                            Append(@, Turn("user", t, v.nobj + 1))]>>
         /\ v2.nobj = v.nobj + 1
         /\ v2.at = "check_window"
         /\ v2.locals = <<v.state[1].summary, <<>>>>
         /\ \E w \in WriteOutcomes : v2.log = save_message_to_json(v.log, "user", t, w)

AloneCheckWindow(v, v2) ==
    LET hd == v.state[1]
    IN /\ v2.log = v.log
       /\ v2.nobj = v.nobj
       /\ v2.at = "build_request"
       /\ IF Len(hd.history) > MAX_WINDOW
          THEN \E r \in SummaryOutcomes(v.locals[1]) :
                 LET new == Summarizer(v.locals[1], hd.history[1], r)
                 IN /\ v2.state = <<[system  |-> hd.system,
                                     history |-> SubSeq(hd.history, 2, Len(hd.history)),
                                     summary |-> new]>>
                    /\ v2.locals = <<new, <<>>>>
          ELSE v2.state = v.state /\ v2.locals = v.locals

AloneBuildRequest(v, v2) ==
    v2 = [v EXCEPT !.locals = <<v.locals[1],
                                build_request(v.state[1].system, v.locals[1],
                                              v.state[1].history)>>,
                   !.at = "call_model"]

AloneCallModel(v, v2) ==
    /\ v2.at = "idle"
    /\ v2.locals = <<>>
    /\ \/ v2.state = v.state /\ v2.log = v.log /\ v2.nobj = v.nobj
       \/ /\ v2.nobj = v.nobj + 1
          /\ \E q \in QuotedReplyTexts :
               /\ v2.state = <<[v.state[1] EXCEPT !.history =
                                  Append(@, Turn("assistant", q, v.nobj + 1))]>>
               /\ \E w \in WriteOutcomes :
                    v2.log = save_message_to_json(v.log, "assistant", q, w)

\* view v2 is one step away from view v, the step being the dispatch of an
\* update with text t or the next step of the turn under way
Alone(v, v2, t) ==
    IF v.at = "check_window" THEN AloneCheckWindow(v, v2)
    ELSE IF v.at = "build_request" THEN AloneBuildRequest(v, v2)
    ELSE IF v.at = "call_model" THEN AloneCallModel(v, v2)
    ELSE IF t = START_COMMAND THEN v2 = v
    ELSE IF t = CONSENT_BUTTON THEN AloneReset(v, v2, SYSTEM_PROMPT)
    ELSE IF t \in {CLEAR_BUTTON, CLEAR_COMMAND} THEN AloneReset(v, v2, CLEARED_NOTE)
    ELSE IF t = FEEDBACK_BUTTON THEN AloneReport(v, v2)
    ELSE AloneUserTurn(v, v2, t)

C17_Step ==
    \A c \in ChatIds :
        IF c = update'.chat_id
        THEN Alone(View(c), View(c)', update'.text)
        ELSE View(c)' = View(c)

\* C17: a step acts on one chat, by what that chat alone holds
C17_ChatsIndependent == [][C17_Step]_vars

C17_Witness ==
    /\ pc = "idle"
    /\ 1 \in Started /\ 2 \in Started
    /\ Len(Buffer(1)) = 2 /\ Len(Buffer(2)) = 2
    /\ Len(chats[1].messages) = 3 /\ Len(chats[2].messages) = 3

-----------------------------------------------------------------------------
(* C18: a turn is handled to its end before the next update is taken, so   *)
(* between the log write of the user message and the append of the         *)
(* assistant reply no other handler runs; a turn is appended to the window *)
(* and to the log by the same handler step, so both keep the same order.   *)
C18_Step ==
    /\ pc # "idle" =>
         /\ update' = update
         /\ nevents' = nevents
         /\ cur = update.chat_id
         /\ cur' \in {cur, 0}
         /\ pc' # "idle" <=> cur' = cur
    /\ \A c \in ChatIds :
         nobj'[c] # nobj[c] =>
            LET k == LastOf(io')
                t == Turn(k.role, k.content, nobj'[c])
            IN /\ c = update'.chat_id
               /\ k.op = "save"
               /\ k.role \in {"user", "assistant"}
               /\ k.obj = nobj[c] + 1
               /\ nobj'[c] = nobj[c] + 1
               /\ user_histories' = [user_histories EXCEPT ![c].history = Append(@, t)]
               /\ k.outcome = "ok" =>
                    chats'[c].messages = Append(chats[c].messages, Entry(k.role, k.content))
               /\ k.outcome # "ok" => chats'[c].messages \in {chats[c].messages, <<>>}

\* C18: turns are handled one after the other, log and window in the same order
C18_TurnsSequential == [][C18_Step]_vars

C18_Witness ==
    /\ pc = "idle"
    /\ AcceptedTurn
    /\ update.chat_id = 1
    /\ 2 \in Started
    /\ reply.kind = "reply"
    /\ io[1].outcome = "ok"
    /\ LastOf(io).outcome = "ok"
    /\ LastOf(chats[1].messages) = Entry("assistant", reply.text)
    /\ LastOf(Buffer(1)).content = reply.text

-----------------------------------------------------------------------------
(* C19: no handler ends with an unhandled error.                           *)
C19_NoUnhandledError == reply.kind # "unhandled"

-----------------------------------------------------------------------------
(* C20: a consent, a reset, an accepted user turn and an obtained reply    *)
(* each call the log append once, and a successful call adds one entry;    *)
(* in a user turn the user entry comes before the completion call and the  *)
(* assistant entry after it; a failed completion leaves the user entry     *)
(* without an assistant entry.                                             *)
C20_OneAppendPerEvent ==
    LET c == update.chat_id
        saves == Ops("save")
        written == SelectSeq(saves, LAMBDA k : k.outcome = "ok")
    IN
    /\ (pc = "idle" /\ update.text \in ResetTexts) =>
         /\ Len(io) = 1
         /\ io[1].op = "save"
         /\ io[1].role = "system"
    /\ AcceptedTurn =>
         /\ io[1].op = "save" /\ io[1].role = "user" /\ io[1].content = update.text
         /\ \A i \in 2..Len(io) :
              /\ io[i].op = "save" =>
                   /\ i = Len(io)
                   /\ io[i].role = "assistant"
                   /\ io[i - 1].op = "persona"
                   /\ io[i - 1].outcome = "text"
              /\ io[i].op = "persona" =>
                   /\ pc = "idle"
                   /\ io[i].outcome = "text" => (i < Len(io) /\ io[i + 1].op = "save")
                   /\ io[i].outcome = "failed" => i = Len(io)
    /\ (update.text \in ResetTexts \cup UserTexts /\ io # <<>> /\ ~chats[c].torn) =>
         /\ Len(chats[c].messages) = saves[1].at + Len(written)
         /\ \A i \in 1..Len(written) :
              chats[c].messages[saves[1].at + i] = Entry(written[i].role, written[i].content)

C20_Witness ==
    /\ pc = "idle"
    /\ AcceptedTurn
    /\ reply.kind = "error"
    /\ Len(io) = 2
    /\ io[1].outcome = "ok"
    /\ LastOf(chats[update.chat_id].messages) = Entry("user", update.text)

-----------------------------------------------------------------------------
(* C21: a failed summarizer call does not undo or stop the turn: the       *)
(* oldest turn leaves the window and is not in the summary, which stays as *)
(* it was; the request is built with that summary and the persona call is  *)
(* made.                                                                   *)
C21_Step ==
    (pc = "check_window" /\ io' # io /\ LastOf(io').op = "summary"
        /\ LastOf(io').outcome = "failed") =>
        /\ pc' = "build_request"
        /\ user_histories' =
             [user_histories EXCEPT ![cur].history = Tail(Buffer(cur))]
        /\ summary' = summary
        /\ summary = user_histories[cur].summary
        /\ evicted'[cur] = Append(evicted[cur], Buffer(cur)[1])

C21_RestOfTurn ==
    (AcceptedTurn /\ Ops("summary") # <<>> /\ Ops("summary")[1].outcome = "failed") =>
        LET c == update.chat_id
            k == LastCall(c)
            request == build_request(SYSTEM_PROMPT, k.before, k.window)
        IN /\ c \in Started
           /\ k.msg.obj \notin ObjSet(Buffer(c))
           /\ user_histories[c].summary = k.before
           /\ user_histories[c].system = SYSTEM_PROMPT
           /\ pc = "call_model" => full_history = request
           /\ pc = "idle" =>
                /\ Len(Ops("persona")) = 1
                /\ Ops("persona")[1].input = request

\* C21: the turn goes on after a failed summarizer call, the summary unchanged
C21_SummarizerFailureGoesOn == []C21_RestOfTurn /\ [][C21_Step]_vars

C21_Witness ==
    /\ pc = "idle"
    /\ AcceptedTurn
    /\ Ops("summary") # <<>>
    /\ Ops("summary")[1].outcome = "failed"
    /\ reply.kind = "reply"
    /\ Len(Buffer(update.chat_id)) = MAX_WINDOW + 1

-----------------------------------------------------------------------------
(* C22: no two adjacent turns of the window have the same role.            *)
C22_BufferAlternates ==
    \A c \in Started :
        \A i \in 1..(Len(Buffer(c)) - 1) : Buffer(c)[i].role # Buffer(c)[i + 1].role

-----------------------------------------------------------------------------
(* C23: conservation of turns: the turns evicted since the last start or   *)
(* reset, followed by the window, are the turns appended since then, in    *)
(* order, none lost and none twice.                                        *)
C23_TurnsConserved ==
    \A c \in ChatIds :
        /\ c \in Started => EvictedSince(c) \o Buffer(c) = appended[c]
        /\ c \notin Started => appended[c] = <<>> /\ evicted[c] = <<>>
        /\ \A i \in 1..Len(appended[c]) :
             /\ appended[c][i].role \in {"user", "assistant"}
             /\ appended[c][i].obj = epoch[c] + i

C23_Witness ==
    /\ pc = "idle"
    /\ 1 \in Started
    /\ Len(EvictedSince(1)) = 1
    /\ Len(Buffer(1)) = 3
    /\ Len(appended[1]) = 4
    /\ 2 \in Started
    /\ Len(appended[2]) = 0

-----------------------------------------------------------------------------
(* C24: the summary of a chat changes only in a step that evicts a turn of *)
(* that chat or that starts or resets it; it is empty from the start or    *)
(* reset to the first eviction, and no request before that eviction has a  *)
(* summary entry.                                                          *)
SummaryOf(states, c) == IF c \in DOMAIN states THEN <<states[c].summary>> ELSE <<>>

C24_Step ==
    \A c \in ChatIds :
        SummaryOf(user_histories', c) # SummaryOf(user_histories, c) =>
            \/ /\ evicted'[c] # evicted[c]
               /\ pc = "check_window"
               /\ cur = c
            \/ /\ \E t \in ResetTexts : Dispatched(c, t)
               /\ SummaryOf(user_histories', c) = <<NoText>>

C24_EmptyUntilEviction ==
    /\ \A c \in Started : EvictedSince(c) = <<>> => user_histories[c].summary = NoText
    /\ (pc = "call_model" /\ EvictedSince(cur) = <<>>) =>
          /\ SummaryEntries(full_history) = {}
          /\ summary = NoText

\* C24: only an eviction or a start/reset changes the summary
C24_SummaryFrame == []C24_EmptyUntilEviction /\ [][C24_Step]_vars

\* a failed completion, and before it a report request, left a summary in place
C24_Witness ==
    /\ pc = "idle"
    /\ AcceptedTurn
    /\ reply.kind = "error"
    /\ user_histories[update.chat_id].summary # NoText
    /\ \E i \in 1..Len(chats[update.chat_id].messages) :
          chats[update.chat_id].messages[i].content = FEEDBACK_NOTE

-----------------------------------------------------------------------------
(* C25: if no log write of a chat has failed, the turns of its window are, *)
(* by role and text and in the same order, a subsequence of the user and   *)
(* assistant entries logged after the latest start or reset entry.         *)
RECURSIVE IsSubsequence(_, _)
IsSubsequence(s, t) ==
    IF s = <<>> THEN TRUE
    ELSE IF t = <<>> THEN FALSE
    ELSE IF s[1] = t[1] THEN IsSubsequence(Tail(s), Tail(t))
    ELSE IsSubsequence(s, Tail(t))

\* index of the latest entry a start or a reset wrote (role system); 0: none
LatestStart(messages) ==
    LET at == {i \in 1..Len(messages) : messages[i].role = "system"}
    IN IF at = {} THEN 0 ELSE CHOOSE i \in at : \A j \in at : j <= i

LoggedTurnsSince(c) ==
    LET messages == chats[c].messages
        n == LatestStart(messages)
    IN SelectSeq(SubSeq(messages, n + 1, Len(messages)),
                 LAMBDA e : e.role \in {"user", "assistant"})

BufferEntries(c) == [i \in 1..Len(Buffer(c)) |-> Entry(Buffer(c)[i].role, Buffer(c)[i].content)]

C25_BufferInLog ==
    \A c \in Started :
        c \notin wfail =>
            /\ LatestStart(chats[c].messages) > 0
            /\ IsSubsequence(BufferEntries(c), LoggedTurnsSince(c))

\* the log holds, after the start entry, an answered turn, the two entries of
\* a report and a user turn whose completion failed; the first turn has
\* left the window
C25_Witness ==
    /\ pc = "idle"
    /\ 1 \in Started
    /\ 1 \notin wfail
    /\ reply.kind = "error"
    /\ Len(EvictedSince(1)) = 1
    /\ Len(Buffer(1)) = 2
    /\ Buffer(1)[2].role = "user"
    /\ Len(LoggedTurnsSince(1)) = 5
    /\ LoggedTurnsSince(1)[3].content = FEEDBACK_NOTE

=============================================================================
